---- MODULE Spec2Model ----
\* A model of client/src/hooks/useWebSocket.ts: the connection manager
\* (connectWebSocket, the socket handlers, the effect's mount and cleanup),
\* the send gate (sendMessage) and the message router (addMessageListener and
\* the dispatch loop of socket.onmessage).
\*
\* Spec runs the connection manager and the send gate over every socket and
\* timer the hook creates; RouterSpec runs the router (subscribe, unsubscribe,
\* inbound frames) on one open connection. The two sets of actions share no
\* variable they write: the router's actions leave the connection state
\* unchanged and the connection's actions leave the registry unchanged.
EXTENDS Integers, Sequences, FiniteSets, TLC

\* ------------------------------------------------------------------ bounds

\* how many WebSocket objects one run creates
MaxSockets == 3
\* how many times the effect runs (React re-runs it after a cleanup)
MaxMounts == 2
\* how many addMessageListener calls one run makes
MaxSubs == 3
\* how many frames one run writes to its sockets
MaxSends == 1

\* ------------------------------------------------------------ value domains

Null == 0
CleanClose == 1000
Abnormal == 1006

CloseCodes == {CleanClose, Abnormal}

Wildcard == "*"
\* the tags consumers subscribe to, and the types messages arrive with
Tags == {"chat", Wildcard}
MessageTypes == Tags \cup {"move"}
Callbacks == {"A", "B", "C"}
Payloads == {"hi"}

NoError == "null"
ErrorText == "Failed to connect to game server"

Undefined == "undefined"

\* ----------------------------------------------------------- JSON encoding

\* JSON.stringify({ type, payload }): the text, as its sequence of tokens
JSONstringify(type, payload) == <<"{", "type", type, "payload", payload, "}">>

\* the frames a server can put on the wire: encoded messages, an object
\* without a type field, the literal null, and a truncated text
EmptyObjectText == <<"{", "}">>
NullText == <<"null">>
TruncatedText == <<"{", "type">>

Frames ==
    {JSONstringify(t, p) : t \in MessageTypes, p \in Payloads}
        \cup {EmptyObjectText, NullText, TruncatedText}

JSValue(kind, type, payload) == [kind |-> kind, type |-> type, payload |-> payload]

\* JSON.parse(text): ok is FALSE when it throws a SyntaxError
JSONparse(text) ==
    IF /\ Len(text) = 6
       /\ text[1] = "{" /\ text[2] = "type" /\ text[4] = "payload" /\ text[6] = "}"
    THEN [ok |-> TRUE, value |-> JSValue("object", text[3], text[5])]
    ELSE IF text = EmptyObjectText
    THEN [ok |-> TRUE, value |-> JSValue("object", Undefined, Undefined)]
    ELSE IF text = NullText
    THEN [ok |-> TRUE, value |-> JSValue("null", Undefined, Undefined)]
    ELSE [ok |-> FALSE, value |-> JSValue("undefined", Undefined, Undefined)]

\* message.payload, as the value handed to a callback
PayloadOf(message) ==
    IF message.payload = Undefined
    THEN JSValue("undefined", Undefined, Undefined)
    ELSE JSValue("string", Undefined, message.payload)

\* -------------------------------------------------------------------- state

VARIABLES
    isConnected,          \* useState(false)
    error,                \* useState(null)
    socketRef,            \* index into sockets, Null before the first connect
    reconnectTimeoutRef,  \* index into timers, Null when unset
    messageCallbacksRef,  \* tag -> sequence of callbacks
    sockets,              \* every WebSocket created, in creation order
    timers,               \* every setTimeout made, in creation order
    mounted,              \* the effect has run and its cleanup has not
    handles,              \* every remove function returned, in creation order
    sendCall,             \* the sendMessage call of this step and what it returned
    received,             \* the frame socket.onmessage handled in this step
    calls                 \* the callback invocations made in this step

vars ==
    <<isConnected, error, socketRef, reconnectTimeoutRef, messageCallbacksRef,
      sockets, timers, mounted, handles, sendCall, received, calls>>

\* new Map()
EmptyMap == [k \in {} |-> <<>>]

NoFrame == <<>>
\* a sendMessage(type, payload) call that returned `returned`
SendCall(type, payload, returned) ==
    [type |-> type, payload |-> payload, returned |-> returned]
NoCall == SendCall(Undefined, Undefined, "none")

Init ==
    /\ isConnected = FALSE
    /\ error = NoError
    /\ socketRef = Null
    /\ reconnectTimeoutRef = Null
    /\ messageCallbacksRef = EmptyMap
    /\ sockets = <<>>
    /\ timers = <<>>
    /\ mounted = FALSE
    /\ handles = <<>>
    /\ sendCall = NoCall
    /\ received = NoFrame
    /\ calls = <<>>

\* the step ran neither sendMessage nor socket.onmessage
Quiet ==
    /\ sendCall' = NoCall
    /\ received' = NoFrame
    /\ calls' = <<>>

\* ------------------------------------------------------- connection manager

NewSocket(by) == [readyState |-> "CONNECTING", code |-> Null, by |-> by, sent |-> <<>>]

NewTimer(origin) == [status |-> "pending", origin |-> origin]

\* how many times the effect has run: the sockets it created
Mounts == Cardinality({i \in 1..Len(sockets) : sockets[i].by = Null})

\* clearTimeout(id): a timer that fired or was cleared is left as it is
ClearTimeout(tm, id) ==
    IF id \in 1..Len(tm) /\ tm[id].status = "pending"
    THEN [tm EXCEPT ![id].status = "cancelled"]
    ELSE tm

\* if (socketRef.current && readyState === OPEN) socketRef.current.close()
CloseIfOpen(socks, ref) ==
    IF ref # Null /\ socks[ref].readyState = "OPEN"
    THEN [socks EXCEPT ![ref].readyState = "CLOSING"]
    ELSE socks

\* connectWebSocket(), called by the effect (by = Null) or by timer `by`;
\* tm is the timer table at the time of the call
connectWebSocket(tm, by) ==
    /\ timers' = IF reconnectTimeoutRef # Null
                 THEN ClearTimeout(tm, reconnectTimeoutRef)
                 ELSE tm
    /\ reconnectTimeoutRef' = Null
    /\ sockets' = Append(CloseIfOpen(sockets, socketRef), NewSocket(by))
    /\ socketRef' = Len(sockets) + 1

\* the effect creating the registry anew each time it runs
MountResettingRegistry ==
    /\ ~mounted
    /\ Mounts < MaxMounts
    /\ Len(sockets) < MaxSockets
    /\ mounted' = TRUE
    /\ connectWebSocket(timers, Null)
    /\ messageCallbacksRef' = [k \in {} |-> <<>>]
    /\ sendCall' = [type |-> "undefined", payload |-> "undefined", returned |-> "none"]
    /\ received' = <<>>
    /\ calls' = <<>>
    /\ UNCHANGED <<isConnected, error, handles>>

\* the effect: connectWebSocket() on mount
Mount ==
    /\ ~mounted
    /\ Mounts < MaxMounts
    /\ Len(sockets) < MaxSockets
    /\ mounted' = TRUE
    /\ connectWebSocket(timers, Null)
    /\ Quiet
    /\ UNCHANGED <<isConnected, error, messageCallbacksRef, handles>>

\* the effect's cleanup
Unmount ==
    /\ mounted
    /\ mounted' = FALSE
    /\ timers' = IF reconnectTimeoutRef # Null
                 THEN ClearTimeout(timers, reconnectTimeoutRef)
                 ELSE timers
    /\ sockets' = CloseIfOpen(sockets, socketRef)
    /\ Quiet
    /\ UNCHANGED <<isConnected, error, socketRef, reconnectTimeoutRef,
                   messageCallbacksRef, handles>>

\* the callback of setTimeout: connectWebSocket()
TimerFire(t) ==
    /\ timers[t].status = "pending"
    /\ Len(sockets) < MaxSockets
    /\ connectWebSocket([timers EXCEPT ![t].status = "fired"], t)
    /\ Quiet
    /\ UNCHANGED <<isConnected, error, messageCallbacksRef, mounted, handles>>

\* socket.onopen, fired when socket s leaves CONNECTING
TransportOpen(s) ==
    /\ sockets[s].readyState = "CONNECTING"
    /\ sockets' = [sockets EXCEPT ![s].readyState = "OPEN"]
    /\ isConnected' = TRUE
    /\ error' = NoError
    /\ Quiet
    /\ UNCHANGED <<socketRef, reconnectTimeoutRef, messageCallbacksRef, timers,
                   mounted, handles>>

\* the test inverted: reconnect after a clean close only
ShouldReconnectInverted(code) == code = CleanClose

\* the test dropped: reconnect after every close
ShouldReconnectAlways(code) == TRUE

\* if (event.code !== 1000)
ShouldReconnect(code) == code # CleanClose

\* the attempts capped: a socket that a reconnect attempt created is not
\* reconnected when it closes
oncloseRetryOnce(s, code) ==
    /\ sockets' = [sockets EXCEPT ![s].readyState = "CLOSED", ![s].code = code]
    /\ isConnected' = FALSE
    /\ IF code # CleanClose /\ sockets[s].by = Null
       THEN /\ timers' = Append(timers, [status |-> "pending", origin |-> s])
            /\ reconnectTimeoutRef' = Len(timers) + 1
       ELSE UNCHANGED <<timers, reconnectTimeoutRef>>

\* socket.onclose(event) on socket s with event.code = code
onclose(s, code) ==
    /\ sockets' = [sockets EXCEPT ![s].readyState = "CLOSED", ![s].code = code]
    /\ isConnected' = FALSE
    /\ IF ShouldReconnect(code)
       THEN /\ timers' = Append(timers, NewTimer(s))
            /\ reconnectTimeoutRef' = Len(timers) + 1
       ELSE UNCHANGED <<timers, reconnectTimeoutRef>>

\* the close event of socket s after its connection was established: the
\* closing handshake ended, with the code the server answered
TransportClose(s, code) ==
    /\ sockets[s].readyState \in {"OPEN", "CLOSING"}
    /\ onclose(s, code)
    /\ Quiet
    /\ UNCHANGED <<error, socketRef, messageCallbacksRef, mounted, handles>>

\* a connection that could not be established or was lost: the error event,
\* then the close event (code 1006), fired together
TransportError(s) ==
    /\ sockets[s].readyState # "CLOSED"
    /\ error' = ErrorText
    /\ onclose(s, Abnormal)
    /\ Quiet
    /\ UNCHANGED <<socketRef, messageCallbacksRef, mounted, handles>>

\* ---------------------------------------------------------------- send gate

\* how many frames have been written to the first n sockets
RECURSIVE Written(_, _)
Written(socks, n) ==
    IF n = 0 THEN 0 ELSE Len(socks[n].sent) + Written(socks, n - 1)

\* the readyState test dropped: send whenever a socket exists
CanSendAnyState(ref, socks) == ref # Null

\* socketRef.current && socketRef.current.readyState === WebSocket.OPEN
CanSend(ref, socks) == ref # Null /\ socks[ref].readyState = "OPEN"

\* sendMessage(type, payload)
sendMessage(type, payload) ==
    /\ IF CanSend(socketRef, sockets)
       THEN /\ Written(sockets, Len(sockets)) < MaxSends
            /\ sockets' = [sockets EXCEPT ![socketRef].sent =
                               Append(@, JSONstringify(type, payload))]
            /\ sendCall' = SendCall(type, payload, "true")
       ELSE /\ sockets' = sockets
            /\ sendCall' = SendCall(type, payload, "false")
    /\ received' = NoFrame
    /\ calls' = <<>>
    /\ UNCHANGED <<isConnected, error, socketRef, reconnectTimeoutRef,
                   messageCallbacksRef, timers, mounted, handles>>

\* ------------------------------------------------------------ message router

\* messageCallbacksRef.current.get(key) || []
GetCallbacks(map, key) == IF key \in DOMAIN map THEN map[key] ELSE <<>>

\* messageCallbacksRef.current.set(key, value)
MapSet(map, key, value) ==
    [k \in DOMAIN map \cup {key} |-> IF k = key THEN value ELSE map[k]]

\* callbacks.push(callback)
Push(list, callback) == Append(list, callback)

\* the first occurrence removed only, as splice(indexOf(callback), 1) does
FilterOutFirst(list, callback) ==
    LET at == {i \in 1..Len(list) : list[i] = callback}
        k == IF at = {} THEN 0 ELSE CHOOSE i \in at : \A j \in at : i <= j
    IN  IF k = 0 THEN list
        ELSE SubSeq(list, 1, k - 1) \o SubSeq(list, k + 1, Len(list))

\* updatedCallbacks.filter(cb => cb !== callback)
FilterOut(list, callback) == SelectSeq(list, LAMBDA cb : cb # callback)

\* the remove function a call addMessageListener(type, callback) returns:
\* invoked once it has been called, removed once any remove function for
\* the same type and callback has been called after it was returned
NewHandle(type, callback) ==
    [type |-> type, callback |-> callback, invoked |-> FALSE, removed |-> FALSE]

\* addMessageListener(type, callback)
addMessageListener(type, callback) ==
    /\ Len(handles) < MaxSubs
    /\ messageCallbacksRef' =
           MapSet(messageCallbacksRef, type,
                  Push(GetCallbacks(messageCallbacksRef, type), callback))
    /\ handles' = Append(handles,
                         NewHandle(type, callback))
    /\ Quiet
    /\ UNCHANGED <<isConnected, error, socketRef, reconnectTimeoutRef, sockets,
                   timers, mounted>>

\* the function addMessageListener returned as handle h, invoked
removeListener(h) ==
    /\ messageCallbacksRef' =
           MapSet(messageCallbacksRef, handles[h].type,
                  FilterOut(GetCallbacks(messageCallbacksRef, handles[h].type),
                            handles[h].callback))
    /\ handles' = [i \in 1..Len(handles) |->
                       IF /\ handles[i].type = handles[h].type
                          /\ handles[i].callback = handles[h].callback
                       THEN [handles[i] EXCEPT !.invoked = (@ \/ i = h),
                                               !.removed = TRUE]
                       ELSE handles[i]]
    /\ Quiet
    /\ UNCHANGED <<isConnected, error, socketRef, reconnectTimeoutRef, sockets,
                   timers, mounted>>

\* the callbacks that throw during one dispatch: the first one that throws
\* ends the dispatch, so one thrower at most decides what a dispatch does
Throwers == {{}} \cup {{c} : c \in Callbacks}

\* the position of the first callback of list that throws, 0 when none does
FirstThrow(list, throwing) ==
    IF \E i \in 1..Len(list) : list[i] \in throwing
    THEN CHOOSE i \in 1..Len(list) :
             /\ list[i] \in throwing
             /\ \A j \in 1..(i - 1) : list[j] \notin throwing
    ELSE 0

\* list.forEach(callback => callback(arg)): the invocations made, each with
\* whether it threw; an exception leaves forEach, so nothing after the
\* throwing callback runs
ForEach(list, key, arg, throwing) ==
    LET k == FirstThrow(list, throwing)
        n == IF k = 0 THEN Len(list) ELSE k
    IN  [i \in 1..n |->
            [callback |-> list[i], list |-> key, arg |-> arg, threw |-> (i = k)]]

\* the wildcard dispatch moved after the try block: it runs whatever the
\* parse gave
onmessageWildcardAfterCatch(text, throwing) ==
    LET parsed == JSONparse(text)
        message == parsed.value
        callbacks == GetCallbacks(messageCallbacksRef, message.type)
        wildcardCallbacks == GetCallbacks(messageCallbacksRef, Wildcard)
    IN  (IF parsed.ok /\ message.kind = "object"
         THEN ForEach(callbacks, message.type, PayloadOf(message), throwing)
         ELSE <<>>)
            \o ForEach(wildcardCallbacks, Wildcard, message, throwing)

\* the body of socket.onmessage's try block: the invocations made for frame
\* text when the callbacks in `throwing` throw
onmessage(text, throwing) ==
    LET parsed == JSONparse(text)
        message == parsed.value
        callbacks == GetCallbacks(messageCallbacksRef, message.type)
        wildcardCallbacks == GetCallbacks(messageCallbacksRef, Wildcard)
    IN  IF ~parsed.ok
        THEN <<>>
        ELSE IF message.kind # "object"
        THEN <<>>
        ELSE IF FirstThrow(callbacks, throwing) # 0
        THEN ForEach(callbacks, message.type, PayloadOf(message), throwing)
        ELSE ForEach(callbacks, message.type, PayloadOf(message), throwing)
                 \o ForEach(wildcardCallbacks, Wildcard, message, throwing)

\* the message event of socket s carrying frame text
TransportMessage(s, text, throwing) ==
    /\ sockets[s].readyState = "OPEN"
    /\ received' = text
    /\ calls' = onmessage(text, throwing)
    /\ sendCall' = NoCall
    /\ UNCHANGED <<isConnected, error, socketRef, reconnectTimeoutRef,
                   messageCallbacksRef, sockets, timers, mounted, handles>>

\* ------------------------------------------------------------ specification

\* the connection manager and the send gate: the effect, the timer and the
\* events of every socket created
Next ==
    \/ Mount
    \/ Unmount
    \/ \E t \in 1..Len(timers) : TimerFire(t)
    \/ \E s \in 1..Len(sockets) : TransportOpen(s)
    \/ \E s \in 1..Len(sockets), code \in CloseCodes : TransportClose(s, code)
    \/ \E s \in 1..Len(sockets) : TransportError(s)
    \/ \E type \in Tags, payload \in Payloads : sendMessage(type, payload)

Spec == Init /\ [][Next]_vars

\* --------------------------------------------- connection manager properties

Pending == {t \in 1..Len(timers) : timers[t].status = "pending"}

\* stop() has run and start() has not been called again by the effect
Stopped == ~mounted /\ Mounts > 0

\* this step is a call of connectWebSocket: it created a socket
StartStep == Len(sockets') = Len(sockets) + 1

\* this step is the close event of socket s
CloseStep(s) == sockets[s].readyState # "CLOSED" /\ sockets'[s].readyState = "CLOSED"

\* C1: once stop() has run, no reconnect timer is scheduled and no transport
\* is created, whatever transport events arrive afterwards.
C1_NoReconnectAfterStop ==
    [][(Stopped /\ Stopped') =>
          /\ Len(timers') = Len(timers)
          /\ Len(sockets') = Len(sockets)]_vars

\* C2: at most one scheduled reconnect attempt is pending in every state.
C2_AtMostOnePending == Cardinality(Pending) <= 1

OneAttemptPerAbnormalClose ==
    /\ \A s \in 1..Len(sockets) :
           Cardinality({t \in 1..Len(timers) : timers[t].origin = s})
               = IF sockets[s].readyState = "CLOSED" /\ sockets[s].code # CleanClose
                 THEN 1 ELSE 0
    /\ \A t \in 1..Len(timers) :
           Cardinality({s \in 1..Len(sockets) : sockets[s].by = t})
               = IF timers[t].status = "fired" THEN 1 ELSE 0

\* C4: a close event with a code other than 1000 schedules exactly one
\* reconnect attempt; the close handler itself does not call start(); the
\* attempt stays pending unless start() or stop() runs, and makes exactly one
\* start() call, when its timer fires.
C4_AbnormalCloseSchedulesOne ==
    [][/\ \A s \in 1..Len(sockets) :
              (CloseStep(s) /\ sockets'[s].code # CleanClose) =>
                  /\ Len(sockets') = Len(sockets)
                  /\ socketRef' = socketRef
                  /\ timers' = Append(timers, [status |-> "pending", origin |-> s])
                  /\ reconnectTimeoutRef' = Len(timers')
       /\ \A t \in 1..Len(timers) :
              /\ (timers[t].status = "pending" /\ timers'[t].status = "cancelled")
                     => (StartStep \/ (mounted /\ ~mounted'))
              /\ (timers[t].status = "pending" /\ timers'[t].status = "fired")
                     => (StartStep /\ sockets'[Len(sockets')].by = t)
              /\ timers[t].status # "pending" => timers'[t] = timers[t]
       /\ OneAttemptPerAbnormalClose']_vars

\* an abnormal close whose timer fired and reconnected
C4_Witness ==
    \E t \in 1..Len(timers) :
        /\ timers[t].status = "fired"
        /\ sockets[timers[t].origin].code = Abnormal
        /\ \E s \in 1..Len(sockets) : sockets[s].by = t

\* C5: a close event with code 1000 schedules no reconnect attempt: it sets
\* the status to not connected, does not set the reconnect timer and creates
\* no transport.
C5_CleanCloseSchedulesNone ==
    [][/\ \A s \in 1..Len(sockets) :
              (CloseStep(s) /\ sockets'[s].code = CleanClose) =>
                  /\ isConnected' = FALSE
                  /\ timers' = timers
                  /\ reconnectTimeoutRef' = reconnectTimeoutRef
                  /\ Len(sockets') = Len(sockets)
                  /\ socketRef' = socketRef
       /\ \A t \in 1..Len(timers') :
              sockets'[timers'[t].origin].code # CleanClose]_vars

\* a socket that was open has closed with code 1000
C5_Witness ==
    \E s \in 1..Len(sockets) :
        /\ sockets[s].readyState = "CLOSED"
        /\ sockets[s].code = CleanClose
        /\ ~isConnected
        /\ Pending = {}

\* C6: sendMessage returns false and writes nothing unless the current
\* transport is open; when it is open it returns true and writes exactly one
\* frame, the encoding of {type, payload}, to the current transport; either
\* way status, error, reconnect timer and registry stay as they are.
C6_SendGate ==
    [][sendCall'.returned # "none" =>
          /\ UNCHANGED <<isConnected, error, socketRef, reconnectTimeoutRef,
                         timers, messageCallbacksRef>>
          /\ IF socketRef # Null /\ sockets[socketRef].readyState = "OPEN"
             THEN /\ sendCall'.returned = "true"
                  /\ Len(sockets') = Len(sockets)
                  /\ \A s \in 1..Len(sockets) :
                         /\ sockets'[s].readyState = sockets[s].readyState
                         /\ s # socketRef => sockets'[s].sent = sockets[s].sent
                  /\ Len(sockets'[socketRef].sent) = Len(sockets[socketRef].sent) + 1
                  /\ SubSeq(sockets'[socketRef].sent, 1, Len(sockets[socketRef].sent))
                         = sockets[socketRef].sent
                  /\ LET frame == sockets'[socketRef].sent[Len(sockets'[socketRef].sent)]
                     IN  /\ JSONparse(frame).ok
                         /\ JSONparse(frame).value.kind = "object"
                         /\ JSONparse(frame).value.type = sendCall'.type
                         /\ JSONparse(frame).value.payload = sendCall'.payload
             ELSE /\ sendCall'.returned = "false"
                  /\ sockets' = sockets]_vars

\* a send on an open transport that returned true and wrote its frame
C6_Witness ==
    /\ sendCall.returned = "true"
    /\ socketRef # Null
    /\ sockets[socketRef].readyState = "OPEN"
    /\ sockets[socketRef].sent = <<JSONstringify(sendCall.type, sendCall.payload)>>

\* the message router on one open connection: the state after the effect
\* ran and its socket opened
RouterInit ==
    /\ isConnected = TRUE
    /\ error = NoError
    /\ socketRef = 1
    /\ reconnectTimeoutRef = Null
    /\ messageCallbacksRef = EmptyMap
    /\ sockets = <<[NewSocket(Null) EXCEPT !.readyState = "OPEN"]>>
    /\ timers = <<>>
    /\ mounted = TRUE
    /\ handles = <<>>
    /\ sendCall = NoCall
    /\ received = NoFrame
    /\ calls = <<>>

RouterNext ==
    \/ \E type \in Tags, callback \in Callbacks : addMessageListener(type, callback)
    \/ \E h \in 1..Len(handles) : removeListener(h)
    \/ \E s \in 1..Len(sockets), text \in Frames, throwing \in Throwers :
           TransportMessage(s, text, throwing)

RouterSpec == RouterInit /\ [][RouterNext]_vars

\* ----------------------------------------------------- message router properties

\* the step handled a frame that decoded to a {type, payload} message
Dispatched ==
    /\ received # NoFrame
    /\ JSONparse(received).ok
    /\ JSONparse(received).value.kind = "object"
    /\ JSONparse(received).value.type \in MessageTypes

Message == JSONparse(received).value

\* the subscribe calls for tag whose callback has not been unsubscribed
\* since, in the order they were made
Subscriptions(tag) == SelectSeq(handles, LAMBDA h : h.type = tag /\ ~h.removed)

SubscribedOrder(tag) ==
    [i \in 1..Len(Subscriptions(tag)) |-> Subscriptions(tag)[i].callback]

\* how many times cb is subscribed to tag
TimesSubscribed(tag, cb) ==
    Len(SelectSeq(Subscriptions(tag), LAMBDA h : h.callback = cb))

\* cb was subscribed to tag and has been unsubscribed from it since
Unsubscribed(tag, cb) ==
    /\ \E h \in 1..Len(handles) : handles[h].type = tag /\ handles[h].callback = cb
    /\ TimesSubscribed(tag, cb) = 0

\* the invocations this step made from the list of tag with argument arg
Invocations(tag, arg) == SelectSeq(calls, LAMBDA c : c.list = tag /\ c.arg = arg)

InvokedOrder(tag, arg) ==
    [i \in 1..Len(Invocations(tag, arg)) |-> Invocations(tag, arg)[i].callback]

\* how many times this step invoked cb from the list of tag
TimesInvoked(tag, cb) ==
    Len(SelectSeq(calls, LAMBDA c : c.list = tag /\ c.callback = cb))

\* C7: a callback subscribed once to a tag other than '*' is invoked exactly
\* once, with the payload, by each dispatch of a message of that type, and is
\* not invoked for that tag by a dispatch of a message of another type.
C7_OncePerMatchingDispatch ==
    Dispatched =>
        \A tag \in Tags \ {Wildcard}, cb \in Callbacks :
            TimesSubscribed(tag, cb) = 1 =>
                /\ TimesInvoked(tag, cb) = IF Message.type = tag THEN 1 ELSE 0
                /\ \A i \in 1..Len(calls) :
                       (calls[i].list = tag /\ calls[i].callback = cb) =>
                           calls[i].arg = PayloadOf(Message)

\* C8: a dispatch that begins after cb was unsubscribed from tag, cb not
\* having been subscribed to tag again, does not invoke cb for tag.
C8_NoDispatchAfterUnsubscribe ==
    received # NoFrame =>
        \A tag \in Tags, cb \in Callbacks :
            Unsubscribed(tag, cb) => TimesInvoked(tag, cb) = 0

\* a dispatch of a message of type tag that invoked a callback still
\* subscribed to tag after cb had been unsubscribed from tag
C8_Witness ==
    /\ Dispatched
    /\ \E cb \in Callbacks :
           /\ Unsubscribed(Message.type, cb)
           /\ TimesInvoked(Message.type, cb) = 0
           /\ \E other \in Callbacks \ {cb} : TimesInvoked(Message.type, other) = 1

\* C9: a callback subscribed to '*' is invoked by every dispatch, whatever
\* the message's type and the subscribers of that type, with the full
\* {type, payload} message (stated for the messages whose type is not '*'
\* and the callbacks subscribed to '*' alone).
C9_WildcardReceivesEverything ==
    (Dispatched /\ Message.type # Wildcard) =>
        \A cb \in Callbacks :
            (/\ TimesSubscribed(Wildcard, cb) >= 1
             /\ \A tag \in Tags \ {Wildcard} : TimesSubscribed(tag, cb) = 0) =>
                \E i \in 1..Len(calls) :
                    /\ calls[i].callback = cb
                    /\ calls[i].list = Wildcard
                    /\ calls[i].arg = Message

\* C10: a dispatch of a message of type tag invokes the callbacks subscribed
\* to tag in the order they were subscribed, whatever subscribe and
\* unsubscribe calls on other callbacks came in between (stated for the tags
\* other than '*' and callbacks subscribed once each).
C10_DispatchInSubscriptionOrder ==
    Dispatched =>
        \A tag \in Tags \ {Wildcard} :
            (/\ Message.type = tag
             /\ \A cb \in Callbacks : TimesSubscribed(tag, cb) <= 1) =>
                InvokedOrder(tag, PayloadOf(Message)) = SubscribedOrder(tag)

\* the step handled a frame and one of the callbacks it invoked threw
SomeCallbackThrew == \E i \in 1..Len(calls) : calls[i].threw

\* C11: a frame that is not valid JSON invokes no callback and changes
\* nothing: status, error, current transport, its state, reconnect timer and
\* registry stay as they are.
C11_MalformedFrameDropped ==
    [][received' = TruncatedText =>
          /\ calls' = <<>>
          /\ UNCHANGED <<isConnected, error, socketRef, reconnectTimeoutRef,
                         messageCallbacksRef, sockets, timers>>]_vars

\* a truncated frame arrived while a wildcard subscriber was registered
C11_Witness ==
    /\ received = TruncatedText
    /\ calls = <<>>
    /\ \E cb \in Callbacks : TimesSubscribed(Wildcard, cb) >= 1

\* C12: when a callback throws during a dispatch, every other callback
\* subscribed to the message's type and every wildcard callback is still
\* invoked for that message (stated for the messages whose type is not '*').
C12_ThrowingSubscriberIsolated ==
    (Dispatched /\ Message.type # Wildcard /\ SomeCallbackThrew) =>
        \A cb \in Callbacks \ {calls[i].callback : i \in {j \in 1..Len(calls) : calls[j].threw}} :
            /\ TimesSubscribed(Wildcard, cb) >= 1 =>
                   \E i \in 1..Len(calls) :
                       calls[i].callback = cb /\ calls[i].arg = Message
            /\ \A tag \in Tags :
                   (Message.type = tag /\ TimesSubscribed(tag, cb) >= 1) =>
                       \E i \in 1..Len(calls) :
                           /\ calls[i].callback = cb
                           /\ calls[i].list = tag
                           /\ calls[i].arg = PayloadOf(Message)

\* ------------------------------------------------- subscriptions and reconnects

\* the hook in use: the effect has run, and a consumer has subscribed A and B
\* to 'chat' and C to '*' while the first socket was connecting
ReconnectInit ==
    /\ isConnected = FALSE
    /\ error = NoError
    /\ socketRef = 1
    /\ reconnectTimeoutRef = Null
    /\ messageCallbacksRef = MapSet(MapSet(EmptyMap, "chat", <<"A", "B">>),
                                    Wildcard, <<"C">>)
    /\ sockets = <<NewSocket(Null)>>
    /\ timers = <<>>
    /\ mounted = TRUE
    /\ handles = <<NewHandle("chat", "A"), NewHandle("chat", "B"),
                   NewHandle(Wildcard, "C")>>
    /\ sendCall = NoCall
    /\ received = NoFrame
    /\ calls = <<>>

\* the connection manager with frames arriving on every open socket
ReconnectNext ==
    \/ Mount
    \/ Unmount
    \/ \E t \in 1..Len(timers) : TimerFire(t)
    \/ \E s \in 1..Len(sockets) : TransportOpen(s)
    \/ \E s \in 1..Len(sockets), code \in CloseCodes : TransportClose(s, code)
    \/ \E s \in 1..Len(sockets) : TransportError(s)
    \/ \E s \in 1..Len(sockets), text \in Frames, throwing \in Throwers :
           TransportMessage(s, text, throwing)

ReconnectSpec == ReconnectInit /\ [][ReconnectNext]_vars

\* a is the beginning of b
IsPrefix(a, b) == Len(a) <= Len(b) /\ a = SubSeq(b, 1, Len(a))

\* the sockets that are open
OpenSockets == {s \in 1..Len(sockets) : sockets[s].readyState = "OPEN"}

\* C13: start(), stop(), the reconnect timer and the transport events leave
\* the registry as the subscribe calls made it, so on every transport, the
\* first or a later one, a dispatch invokes the callbacks subscribed to the
\* message's type and then those subscribed to '*', each list in subscription
\* order: all of them unless an invocation throws, and those before the
\* throwing one if one does.
C13_SubscriptionsSurviveReconnect ==
    /\ \A tag \in Tags : GetCallbacks(messageCallbacksRef, tag) = SubscribedOrder(tag)
    /\ Dispatched =>
           /\ \A i \in 1..Len(calls) :
                  calls[i].list \in {Message.type, Wildcard}
           /\ IsPrefix(InvokedOrder(Message.type, PayloadOf(Message)),
                       SubscribedOrder(Message.type))
           /\ IsPrefix(InvokedOrder(Wildcard, Message), SubscribedOrder(Wildcard))
           /\ ~SomeCallbackThrew =>
                  /\ InvokedOrder(Message.type, PayloadOf(Message))
                         = SubscribedOrder(Message.type)
                  /\ InvokedOrder(Wildcard, Message) = SubscribedOrder(Wildcard)

\* a 'chat' frame received on a socket that a reconnect timer created, after
\* the first socket closed abnormally: A and B, subscribed before the close,
\* are invoked in that order and C after them
C13_Witness ==
    /\ Dispatched
    /\ Message.type = "chat"
    /\ sockets[1].readyState = "CLOSED"
    /\ sockets[1].code = Abnormal
    /\ OpenSockets = {socketRef}
    /\ sockets[socketRef].by # Null
    /\ InvokedOrder("chat", PayloadOf(Message)) = <<"A", "B">>
    /\ InvokedOrder(Wildcard, Message) = <<"C">>

\* ------------------------------------------- message router properties, continued

\* C14: a frame that decodes to a value without the {type, payload} shape, an
\* object with no type field or the literal null, invokes no callback, neither
\* a type-specific one nor a wildcard one.
C14_ShapelessFrameDropped ==
    received \in {EmptyObjectText, NullText} => calls = <<>>

\* the subscribe calls of cb to tag whose remove function has not been invoked
Registrations(tag, cb) ==
    {h \in 1..Len(handles) :
        /\ handles[h].type = tag
        /\ handles[h].callback = cb
        /\ ~handles[h].invoked}

\* C15: each subscribe call is a registration of its own and each remove
\* function removes its own registration only: a dispatch of a message of a
\* type other than '*' in which nothing throws invokes a callback once for
\* every subscribe call of it to that type whose remove function has not been
\* invoked.
C15_HandleRemovesOwnRegistration ==
    (Dispatched /\ Message.type # Wildcard /\ ~SomeCallbackThrew) =>
        \A cb \in Callbacks :
            TimesInvoked(Message.type, cb) = Cardinality(Registrations(Message.type, cb))

\* C16: a remove function invoked a second or later time leaves the list of
\* every tag as it is, whatever was subscribed or unsubscribed in between;
\* invoked the first time, it leaves the other callbacks of its tag and the
\* lists of the other tags as they are.
C16_SecondRemoveIsNoOp ==
    [][\A h \in 1..Len(handles) :
          removeListener(h) =>
              /\ \A tag \in Tags \ {handles[h].type} :
                     GetCallbacks(messageCallbacksRef', tag)
                         = GetCallbacks(messageCallbacksRef, tag)
              /\ SelectSeq(GetCallbacks(messageCallbacksRef', handles[h].type),
                           LAMBDA cb : cb # handles[h].callback)
                     = SelectSeq(GetCallbacks(messageCallbacksRef, handles[h].type),
                                 LAMBDA cb : cb # handles[h].callback)
              /\ handles[h].invoked =>
                     GetCallbacks(messageCallbacksRef', handles[h].type)
                         = GetCallbacks(messageCallbacksRef, handles[h].type)]_vars

\* C20: a message whose type is '*' reaches each wildcard subscriber once per
\* subscription, as the whole message: no callback is handed the bare payload
\* and none is invoked more often than it is subscribed to '*'.
C20_WildcardTypedMessageOnce ==
    (Dispatched /\ Message.type = Wildcard /\ ~SomeCallbackThrew) =>
        /\ \A i \in 1..Len(calls) : calls[i].arg = Message
        /\ \A cb \in Callbacks :
               Len(SelectSeq(calls, LAMBDA c : c.callback = cb))
                   = TimesSubscribed(Wildcard, cb)

\* ------------------------------------------------------------------ liveness

\* setTimeout runs its callback once the delay has passed, unless the timer
\* was cleared before: a pending timer that can fire does fire
TimersFire ==
    \A t \in 1..MaxSockets : WF_vars(t <= Len(timers) /\ TimerFire(t))

\* the connection manager alone: the effect, the timer and the events of
\* every socket created
ManagerNext ==
    \/ Mount
    \/ Unmount
    \/ \E t \in 1..Len(timers) : TimerFire(t)
    \/ \E s \in 1..Len(sockets) : TransportOpen(s)
    \/ \E s \in 1..Len(sockets), code \in CloseCodes : TransportClose(s, code)
    \/ \E s \in 1..Len(sockets) : TransportError(s)

LiveSpec == Init /\ [][ManagerNext]_vars /\ TimersFire

\* the current socket has closed with a code other than 1000 while the hook
\* is mounted (and the model's bound leaves room for another socket)
CurrentClosedAbnormally ==
    /\ mounted
    /\ socketRef # Null
    /\ sockets[socketRef].readyState = "CLOSED"
    /\ sockets[socketRef].code # CleanClose
    /\ Len(sockets) < MaxSockets

\* connectWebSocket has just replaced the current socket by a new one
NewAttempt == socketRef # Null /\ sockets[socketRef].readyState = "CONNECTING"

\* C17: whenever the current transport has closed with a code other than 1000,
\* a new connection attempt follows eventually unless stop() is called, after
\* the first close as after any later one, provided that timers fire.
C17_AbnormalCloseReconnectsEventually ==
    CurrentClosedAbnormally ~> (NewAttempt \/ ~mounted)

\* two abnormal closes in a row, each followed by the attempt its timer made
C17_Witness ==
    /\ mounted
    /\ Len(sockets) >= 3
    /\ \A s \in 1..2 :
           /\ sockets[s].readyState = "CLOSED"
           /\ sockets[s].code = Abnormal
           /\ sockets[s + 1].by # Null
           /\ timers[sockets[s + 1].by].origin = s
    /\ socketRef = 3
    /\ sockets[3].readyState = "CONNECTING"

\* --------------------------------- connection manager properties, continued

\* the sockets that are connecting or open
ActiveSockets ==
    {s \in 1..Len(sockets) : sockets[s].readyState \in {"CONNECTING", "OPEN"}}

\* C18: of the sockets the manager has created, at most one is connecting or
\* open in every state: a socket that start() has replaced is no longer
\* active, so none of its events can reach the handlers.
C18_OneActiveTransport == Cardinality(ActiveSockets) <= 1

\* C19: while the hook is mounted, the status is connected exactly when the
\* current socket is open, that is exactly when sendMessage would write the
\* frame and return true.
C19_StatusAgreesWithSendGate ==
    mounted => (isConnected <=> CanSend(socketRef, sockets))

====
